---------------------------- MODULE Spec2Model ----------------------------
(***************************************************************************)
(* A model of svgo-rs: the path-data optimizer (src/plugins/path.rs), the  *)
(* plugin capability (src/plugins/traits.rs) and the streaming coordinator *)
(* SVGProcessor (src/processor.rs).                                        *)
(*                                                                         *)
(* Text is a sequence of one-character strings.  A floating-point number   *)
(* is kept as its sign, its decimal digits and a decimal exponent, so that *)
(* parsing and formatting are computed digit by digit.                     *)
(***************************************************************************)
EXTENDS Integers, Sequences, FiniteSets, TLC

(***************************************************************************)
(* Bounds of the model.                                                    *)
(***************************************************************************)
\* Longest enumerated path-data string.
MaxLen == 4
\* Largest enumerated decimal_places.
MaxPrec == 1

(***************************************************************************)
(* Characters.                                                             *)
(***************************************************************************)
Commands ==
    {"M", "m", "L", "l", "H", "h", "V", "v", "C", "c",
     "S", "s", "Q", "q", "T", "t", "A", "a", "Z", "z"}

Digits == {"0", "1", "2", "3", "4", "5", "6", "7", "8", "9"}

DigitChars == <<"0", "1", "2", "3", "4", "5", "6", "7", "8", "9">>

\* The value of a digit character.
DigitVal(c) == (CHOOSE k \in 1..10 : DigitChars[k] = c) - 1

\* The character of a digit value.
DigitChar(n) == DigitChars[n + 1]

\* '0'..='9' | '.' | '-' : the characters that start a number.
IsNumberStart(c) == c \in Digits \cup {".", "-"}

\* The characters the collecting loop accepts after the first one.
IsNumberCont(c) == c \in Digits \cup {".", "e", "E", "-"}

\* ' ' | ','
IsSeparator(c) == c \in {" ", ","}

\* The peeked character that makes a separator emit a space.
IsSpaceTrigger(c) == c \in Digits \cup {"-"}

(***************************************************************************)
(* Sequence helpers.                                                       *)
(***************************************************************************)
Last(s) == s[Len(s)]

Min(S) == CHOOSE x \in S : \A y \in S : x <= y

Max(S) == CHOOSE x \in S : \A y \in S : x >= y

Zeros(n) == [k \in 1..n |-> "0"]

Count(s, c) == Cardinality({k \in 1..Len(s) : s[k] = c})

\* str::trim_end_matches(c): every trailing c is removed.
TrimEndMatches(s, c) ==
    LET keep == {k \in 1..Len(s) : s[k] # c}
    IN  IF keep = {} THEN <<>> ELSE SubSeq(s, 1, Max(keep))

\* A digit sequence without its leading zeros.
StripLeadingZeros(s) ==
    LET keep == {k \in 1..Len(s) : s[k] # "0"}
    IN  IF keep = {} THEN <<>> ELSE SubSeq(s, Min(keep), Len(s))

\* The natural number a digit sequence denotes (exponent fields only).
RECURSIVE DigitsToNat(_)
DigitsToNat(s) ==
    IF s = <<>> THEN 0
    ELSE 10 * DigitsToNat(SubSeq(s, 1, Len(s) - 1)) + DigitVal(Last(s))

\* A digit sequence plus one, of the same length; the carry is dropped.
RECURSIVE IncDigits(_)
IncDigits(s) ==
    IF s = <<>> THEN <<>>
    ELSE IF Last(s) = "9"
         THEN Append(IncDigits(SubSeq(s, 1, Len(s) - 1)), "0")
         ELSE Append(SubSeq(s, 1, Len(s) - 1), DigitChar(DigitVal(Last(s)) + 1))

(***************************************************************************)
(* str::parse::<f64>() on a collected token.                               *)
(*   Float  ::= Sign? Number                                               *)
(*   Number ::= ( Digit+ | Digit+ '.' Digit* | Digit* '.' Digit+ ) Exp?    *)
(*   Exp    ::= ('e' | 'E') Sign? Digit+                                   *)
(* The result is [ok, neg, int, frac, exp]: the value is                   *)
(* (-1)^neg * int.frac * 10^exp.                                           *)
(***************************************************************************)
ParseFail == [ok |-> FALSE, neg |-> FALSE, int |-> <<>>, frac |-> <<>>, exp |-> 0]

\* The index of the first c of `set` in s, or Len(s) + 1.
FirstOf(s, set) ==
    IF \E k \in 1..Len(s) : s[k] \in set
    THEN Min({k \in 1..Len(s) : s[k] \in set})
    ELSE Len(s) + 1

HasSign(s) == s # <<>> /\ s[1] \in {"-", "+"}

Unsigned(s) == IF HasSign(s) THEN Tail(s) ELSE s

\* Digit+ | Digit+ '.' Digit* | Digit* '.' Digit+
MantissaOK(mant) ==
    /\ \A k \in 1..Len(mant) : mant[k] \in Digits \cup {"."}
    /\ Count(mant, ".") <= 1
    /\ Len(mant) - Count(mant, ".") >= 1

\* Sign? Digit+
ExponentOK(etxt) ==
    /\ Unsigned(etxt) # <<>>
    /\ \A k \in 1..Len(Unsigned(etxt)) : Unsigned(etxt)[k] \in Digits

ExponentVal(etxt) ==
    IF HasSign(etxt) /\ etxt[1] = "-"
    THEN 0 - DigitsToNat(Tail(etxt))
    ELSE DigitsToNat(Unsigned(etxt))

\* The number with mantissa text mant and, when hasExp, exponent text etxt.
ParseParts(neg, mant, hasExp, etxt) ==
    IF MantissaOK(mant) /\ (hasExp => ExponentOK(etxt))
    THEN [ok   |-> TRUE,
          neg  |-> neg,
          int  |-> SubSeq(mant, 1, FirstOf(mant, {"."}) - 1),
          frac |-> SubSeq(mant, FirstOf(mant, {"."}) + 1, Len(mant)),
          exp  |-> IF hasExp THEN ExponentVal(etxt) ELSE 0]
    ELSE ParseFail

\* The number of the unsigned text body, whose exponent marker is at epos.
ParseBody(neg, body, epos) ==
    ParseParts(neg, SubSeq(body, 1, epos - 1), epos <= Len(body),
               SubSeq(body, epos + 1, Len(body)))

ParseFloat(tok) ==
    ParseBody(HasSign(tok) /\ tok[1] = "-", Unsigned(tok),
              FirstOf(Unsigned(tok), {"e", "E"}))

(***************************************************************************)
(* format!("{:.1$}", num, decimal_places): the value with exactly P        *)
(* fractional digits, rounded to nearest (an exact tie goes to the even    *)
(* digit), with a '-' when the sign bit is set.                            *)
(***************************************************************************)
\* The digits `all` with the decimal point after the first p of them.
PointAt(all, p) ==
    IF p <= 0
    THEN [int |-> <<>>, frac |-> Zeros(0 - p) \o all]
    ELSE IF p >= Len(all)
         THEN [int |-> all \o Zeros(p - Len(all)), frac |-> <<>>]
         ELSE [int |-> SubSeq(all, 1, p), frac |-> SubSeq(all, p + 1, Len(all))]

\* The digits before and after the decimal point once the exponent is applied.
Shifted(num) == PointAt(num.int \o num.frac, Len(num.int) + num.exp)

\* Whether the dropped digits `rest` round the kept digits `kept` up.
RoundsUp(kept, rest) ==
    /\ rest # <<>>
    /\ \/ DigitVal(rest[1]) > 5
       \/ /\ DigitVal(rest[1]) = 5
          /\ \/ \E k \in 2..Len(rest) : rest[k] # "0"
             \/ kept # <<>> /\ DigitVal(Last(kept)) % 2 = 1

\* The first P fractional digits, zero-padded.
FracKept(frac, P) ==
    IF Len(frac) >= P THEN SubSeq(frac, 1, P) ELSE frac \o Zeros(P - Len(frac))

\* kept is the integer digits followed by P fractional digits.
Rounded(kept, rest) == IF RoundsUp(kept, rest) THEN IncDigits(kept) ELSE kept

IntText(int) == IF StripLeadingZeros(int) = <<>> THEN <<"0">> ELSE StripLeadingZeros(int)

\* digits is the integer digits followed by P fractional digits.
Rendered(neg, digits, P) ==
    (IF neg THEN <<"-">> ELSE <<>>)
    \o IntText(SubSeq(digits, 1, Len(digits) - P))
    \o (IF P > 0 THEN <<".">> \o SubSeq(digits, Len(digits) - P + 1, Len(digits))
        ELSE <<>>)

\* One guard digit in front takes the carry of the rounding.
FormatShifted(neg, sh, P) ==
    Rendered(neg,
             Rounded(<<"0">> \o sh.int \o FracKept(sh.frac, P),
                     SubSeq(sh.frac, P + 1, Len(sh.frac))),
             P)

FormatFixed(num, P) == FormatShifted(num.neg, Shifted(num), P)

\* Trimmed without the second trim: a trailing '.' stays.
Trimmed_KeepsPoint(rounded) == TrimEndMatches(rounded, "0")

\* rounded.trim_end_matches('0').trim_end_matches('.')
Trimmed(rounded) == TrimEndMatches(TrimEndMatches(rounded, "0"), ".")

(***************************************************************************)
(* PathOptimizerPlugin::optimize_path_data: the scan over the characters.  *)
(* The scan state is [out, toks]: the optimized text and, for every        *)
(* collected number, its text raw = s[from..to], whether it parsed, what   *)
(* was emitted for it and the index `at` of that text in out.              *)
(***************************************************************************)
\* The index of the last character of the number that starts at i.
TokenEnd(s, i) ==
    IF \E k \in (i + 1)..Len(s) : ~IsNumberCont(s[k])
    THEN Min({k \in (i + 1)..Len(s) : ~IsNumberCont(s[k])}) - 1
    ELSE Len(s)

\* The space pushed in front of a number.
NumberGap(prev_was_number) == IF prev_was_number THEN <<" ">> ELSE <<>>

\* The text a separator at i emits.
SeparatorGap(s, i, prev_was_number) ==
    IF prev_was_number /\ i + 1 <= Len(s) /\ IsSpaceTrigger(s[i + 1])
    THEN <<" ">>
    ELSE <<>>

\* The text pushed for a number that parsed as num.
EmitParsed(number, num, P) ==
    IF num.ok
    THEN [raw |-> number, parsed |-> TRUE, emitted |-> Trimmed(FormatFixed(num, P))]
    ELSE [raw |-> number, parsed |-> FALSE, emitted |-> number]

\* The text pushed for a collected number, and whether it parsed.
EmitNumber(number, P) == EmitParsed(number, ParseFloat(number), P)

PushChar_Closing(acc, c) == [acc EXCEPT !.out = Append(@, IF c = "z" THEN "Z" ELSE c)]

\* The scan state after a command or any other character c.
PushChar(acc, c) == [acc EXCEPT !.out = Append(@, c)]

\* The scan state after a separator.
PushGap(acc, gap) == [acc EXCEPT !.out = @ \o gap]

\* The scan state after the number s[i..j], pushed as tok behind gap.
PushNumber(acc, gap, tok, i, j) ==
    [out  |-> acc.out \o gap \o tok.emitted,
     toks |-> Append(acc.toks,
                     [raw |-> tok.raw, parsed |-> tok.parsed, emitted |-> tok.emitted,
                      from |-> i, to |-> j, at |-> Len(acc.out) + Len(gap) + 1])]

RECURSIVE Scan(_, _, _, _, _)
\* The number s[i..j] was collected and pushed as tok.
ScanAfterNumber(s, P, j, acc, tok) == Scan(s, P, j + 1, tok.parsed, acc)

ScanNumber(s, P, i, j, prev_was_number, acc) ==
    ScanAfterNumber(s, P, j,
        PushNumber(acc, NumberGap(prev_was_number), EmitNumber(SubSeq(s, i, j), P),
                   i, j),
        EmitNumber(SubSeq(s, i, j), P))

Scan(s, P, i, prev_was_number, acc) ==
    IF i > Len(s) THEN acc
    ELSE IF s[i] \in Commands
         THEN Scan(s, P, i + 1, FALSE, PushChar(acc, s[i]))
    ELSE IF IsNumberStart(s[i])
         THEN ScanNumber(s, P, i, TokenEnd(s, i), prev_was_number, acc)
    ELSE IF IsSeparator(s[i])
         THEN Scan(s, P, i + 1, prev_was_number,
                   PushGap(acc, SeparatorGap(s, i, prev_was_number)))
    ELSE Scan(s, P, i + 1, prev_was_number, PushChar(acc, s[i]))

ScanResult(s, P) == Scan(s, P, 1, FALSE, [out |-> <<>>, toks |-> <<>>])

\* The string the scan builds: `optimized` at the end of the loop.
OptimizedText(s, P) == ScanResult(s, P).out

\* The numbers the scan collects.
CollectedNumbers(s, P) == ScanResult(s, P).toks

(***************************************************************************)
(* usize: 64 bits, kept as four 16-bit limbs, most significant first, so   *)
(* that wrapping arithmetic is computed at its real width.                 *)
(***************************************************************************)
LimbBase == 65536

UsizeZero == <<0, 0, 0, 0>>

\* A small natural number as a usize.
ToUsize(n) == <<0, 0, 0, n>>

\* The limbs a[1..k] + b[1..k] + carry, with the carry out.
RECURSIVE AddLimbs(_, _, _, _)
AddLimbs(a, b, k, carry) ==
    IF k = 0 THEN [val |-> <<>>, overflow |-> carry = 1]
    ELSE [AddLimbs(a, b, k - 1, (a[k] + b[k] + carry) \div LimbBase)
              EXCEPT !.val = Append(@, (a[k] + b[k] + carry) % LimbBase)]

\* a + b modulo 2^64, and whether it overflowed.
UsizeAdd(a, b) == AddLimbs(a, b, 4, 0)

\* The limbs a[1..k] - b[1..k] - borrow, with the borrow out.
RECURSIVE SubLimbs(_, _, _, _)
SubLimbs(a, b, k, borrow) ==
    IF k = 0 THEN [val |-> <<>>, overflow |-> borrow = 1]
    ELSE [SubLimbs(a, b, k - 1, IF a[k] - b[k] - borrow < 0 THEN 1 ELSE 0)
              EXCEPT !.val = Append(@, (a[k] - b[k] - borrow + LimbBase) % LimbBase)]

\* a - b modulo 2^64, and whether it overflowed.
UsizeSub(a, b) == SubLimbs(a, b, 4, 0)

(***************************************************************************)
(* PathOptimizerPlugin.                                                    *)
(***************************************************************************)
\* PathOptimizerPlugin::new
PathOptimizerPlugin_new(decimals) ==
    [kind              |-> "PathOptimizer",
     decimal_places    |-> decimals,
     path_count        |-> UsizeZero,
     total_chars_saved |-> UsizeZero]

\* total + diff, where diff is the outcome of the subtraction: with
\* overflow checks (a debug build) an overflowing - or += panics, without
\* them (a release build) both wrap.
AddSaved(total, diff, checks) ==
    [val      |-> UsizeAdd(total, diff.val).val,
     panicked |-> checks /\ (diff.overflow \/ UsizeAdd(total, diff.val).overflow)]

\* self.total_chars_saved += path_data.len() - optimized.len();
AccumulateSaved(total, inLen, outLen, checks) ==
    AddSaved(total, UsizeSub(ToUsize(inLen), ToUsize(outLen)), checks)

\* The call's outcome once the scan built `text`: the returned string, the
\* plugin afterwards, and whether the call panicked.
ReturnOptimized(self, text, acc) ==
    IF acc.panicked
    THEN [self |-> self, ret |-> <<>>, panicked |-> TRUE]
    ELSE [self     |-> [self EXCEPT !.total_chars_saved = acc.val],
          ret      |-> text,
          panicked |-> FALSE]

AccountOptimized(self, path_data, text, checks) ==
    ReturnOptimized(self, text,
        AccumulateSaved(self.total_chars_saved, Len(path_data), Len(text), checks))

\* optimize_path_data(&mut self, path_data) under overflow checks `checks`.
optimize_path_data(self, path_data, checks) ==
    AccountOptimized(self, path_data,
                     OptimizedText(path_data, self.decimal_places), checks)

(***************************************************************************)
(* Elements.  An element (quick_xml's BytesStart) is [name, attrs]; attrs  *)
(* is the sequence of its attributes [key, value], the value being the raw *)
(* text between the quotes.  Keys are unique within an element.            *)
(***************************************************************************)
\* A byte that is not valid UTF-8, and what from_utf8_lossy puts for it.
InvalidByte == "\\xFF"

ReplacementChar == "\\uFFFD"

\* String::from_utf8_lossy(bytes).into_owned()
FromUtf8Lossy(bytes) ==
    [k \in 1..Len(bytes) |-> IF bytes[k] = InvalidByte THEN ReplacementChar ELSE bytes[k]]

\* quick_xml's escape of one character, applied by push_attribute to the
\* value of a (&str, &str) attribute.
EscapeChar(c) ==
    CASE c = "&" -> <<"&", "a", "m", "p", ";">>
      [] c = "<" -> <<"&", "l", "t", ";">>
      [] c = ">" -> <<"&", "g", "t", ";">>
      [] c = "'" -> <<"&", "a", "p", "o", "s", ";">>
      [] c = "\"" -> <<"&", "q", "u", "o", "t", ";">>
      [] OTHER -> <<c>>

RECURSIVE Escape(_)
Escape(text) ==
    IF text = <<>> THEN <<>> ELSE EscapeChar(Head(text)) \o Escape(Tail(text))

\* element.push_attribute((key, value))
push_attribute(attrs, key, value) == Append(attrs, [key |-> key, value |-> Escape(value)])

RECURSIVE PushAll(_, _)
\* for (key, value) in new_attrs { element.push_attribute((key, value)) }
PushAll(attrs, new_attrs) ==
    IF new_attrs = <<>> THEN attrs
    ELSE PushAll(push_attribute(attrs, Head(new_attrs).key, Head(new_attrs).value),
                 Tail(new_attrs))

\* Option<String>
None == [some |-> FALSE, val |-> <<>>]

Some(v) == [some |-> TRUE, val |-> v]

\* element.name() matched by its local name: a prefixed path matches too.
IsPathElement_LocalName(element) == element.name \in {"path", "svg:path"}

\* element.name().as_ref() == b"path"
IsPathElement(element) == element.name = "path"

\* The attribute list rebuilt in place: d keeps its position.
RebuildAttributes_InPlace(attrs, new_attrs, optimized_path) ==
    [k \in 1..Len(attrs) |->
        [key   |-> attrs[k].key,
         value |-> IF attrs[k].key = "d" THEN Escape(optimized_path)
                   ELSE Escape(FromUtf8Lossy(attrs[k].value))]]

\* clear_attributes(), the non-d attributes pushed back, then d pushed.
RebuildAttributes(attrs, new_attrs, optimized_path) ==
    push_attribute(PushAll(<<>>, new_attrs), "d", optimized_path)

\* The loop state [self, new_attrs, path_data, panicked] after the d
\* attribute's value went through optimize_path_data with outcome r.
AfterData(st, r) ==
    [self      |-> r.self,
     new_attrs |-> st.new_attrs,
     path_data |-> Some(r.ret),
     panicked  |-> r.panicked]

\* The loop state after a non-d attribute (a key is a name: valid UTF-8).
AfterOther(st, attr) ==
    [st EXCEPT !.new_attrs = Append(@, [key   |-> attr.key,
                                        value |-> FromUtf8Lossy(attr.value)])]

\* for attr in element.attributes().flatten() { ... }, from attribute k on.
RECURSIVE CollectAttributes(_, _, _, _)
CollectAttributes(attrs, k, st, checks) ==
    IF k > Len(attrs) \/ st.panicked THEN st
    ELSE IF attrs[k].key = "d"
         THEN CollectAttributes(attrs, k + 1,
                  AfterData(st, optimize_path_data(st.self,
                                    FromUtf8Lossy(attrs[k].value), checks)),
                  checks)
         ELSE CollectAttributes(attrs, k + 1, AfterOther(st, attrs[k]), checks)

\* if let Some(optimized_path) = path_data { ... }
FinishElement(element, st) ==
    [self     |-> st.self,
     panicked |-> st.panicked,
     element  |-> IF st.panicked \/ ~st.path_data.some THEN element
                  ELSE [element EXCEPT
                           !.attrs = RebuildAttributes(@, st.new_attrs,
                                                       st.path_data.val)]]

\* The body of `if element.name() == "path"`, once path_count was
\* incremented with outcome count.
ProcessPath(self, element, count, checks) ==
    IF checks /\ count.overflow
    THEN [self |-> self, panicked |-> TRUE, element |-> element]
    ELSE FinishElement(element,
             CollectAttributes(element.attrs, 1,
                 [self      |-> [self EXCEPT !.path_count = count.val],
                  new_attrs |-> <<>>,
                  path_data |-> None,
                  panicked  |-> FALSE],
                 checks))

\* <PathOptimizerPlugin as SVGPlugin>::process_element under overflow checks
\* `checks`: the plugin and the element afterwards, and whether the call
\* panicked (it never returns Err).
process_element(self, element, checks) ==
    IF IsPathElement(element)
    THEN ProcessPath(self, element, UsizeAdd(self.path_count, ToUsize(1)), checks)
    ELSE [self |-> self, panicked |-> FALSE, element |-> element]

PathOptimizerPlugin_init_KeepsSaved(self) == [self EXCEPT !.path_count = UsizeZero]

\* <PathOptimizerPlugin as SVGPlugin>::init
PathOptimizerPlugin_init(self) ==
    [self EXCEPT !.path_count = UsizeZero, !.total_chars_saved = UsizeZero]

(***************************************************************************)
(* State.                                                                  *)
(***************************************************************************)
VARIABLES
    overflow_checks,  \* the build profile: TRUE panics on integer overflow
    optimizer,        \* the PathOptimizerPlugin under test
    path_data,        \* the string given to optimize_path_data
    optimized,        \* what the first call returned
    reoptimized,      \* what the call on `optimized` returned
    collected,        \* the numbers the first call collected
    path_pc,          \* "start", "once", "twice" or "panicked"
    element,          \* the element last given to process_element
    element_after,    \* that element when process_element returned
    offered,          \* how many elements were given since construction
    with_data,        \* how many of them, since the last init, were paths with a d
    saved_sum,        \* len(original) - len(optimized) summed over those d
    elem_pc,          \* "idle", "returned" or "panicked"
    plugins,          \* SVGProcessor.plugins, in registration order
    pc,               \* where process_file is: "idle" outside a run
    idx,              \* the plugin the current loop is at
    cur,              \* the event read and not yet written
    processed,        \* the local `processed`
    pulled,           \* the events read from the source in this run
    written,          \* the events written to the sink in this run
    source,           \* "open", or how the source ended in this run: "eof", "error"
    out_created,      \* File::create(output_path) succeeded in this run
    flushed,          \* inner.flush() succeeded in this run
    result,           \* what the last run returned, "none" before it returns
    run,              \* how many runs were started
    init_calls,       \* the plugins whose init was called in this run
    elem_calls,       \* the process_element calls for the last event read
    fin_calls,        \* the plugins whose finalize was called in this run
    flush_attempted,  \* the writer's buffer was flushed, or the attempt made
    args,             \* the OptimizeArgs the command line gave
    config,           \* the PluginConfig made from them
    cli_pc            \* "parsed", "converted" or "configured"

pathVars == <<path_data, optimized, reoptimized, collected, path_pc>>

elemVars == <<element, element_after, offered, with_data, saved_sum, elem_pc>>

procVars ==
    <<plugins, pc, idx, cur, processed, pulled, written, source, out_created,
      flushed, result, run, init_calls, elem_calls, fin_calls, flush_attempted>>

cliVars == <<args, config, cli_pc>>

vars == <<overflow_checks, optimizer, pathVars, elemVars, procVars, cliVars>>

NoElement == [name |-> "", attrs |-> <<>>]

\* The variables of the other specifications, at rest.
PathIdle ==
    /\ path_data = <<>>
    /\ optimized = <<>>
    /\ reoptimized = <<>>
    /\ collected = <<>>
    /\ path_pc = "idle"

ElemIdle ==
    /\ element = NoElement
    /\ element_after = NoElement
    /\ offered = 0
    /\ with_data = 0
    /\ saved_sum = 0
    /\ elem_pc = "idle"

NoEvent == [type |-> "None", elem |-> NoElement]

NoResult == [kind |-> "none", unit |-> 0]

\* No command line.
NoArgs ==
    [optimize_paths    |-> FALSE,
     path_decimals     |-> 0,
     dedupe_gradients  |-> FALSE,
     remove_ids        |-> FALSE,
     remove_data_attrs |-> FALSE,
     preserve_ids      |-> None]

\* PluginConfig::default()
PluginConfig_default ==
    [path_optimizer        |-> None,
     gradient_deduplicator |-> FALSE,
     id_remover            |-> [enabled |-> FALSE, preserve |-> <<>>],
     data_attr_remover     |-> FALSE]

CliIdle ==
    /\ args = NoArgs
    /\ config = PluginConfig_default
    /\ cli_pc = "idle"

\* SVGProcessor::new, and no run yet.
ProcIdle ==
    /\ plugins = <<>>
    /\ pc = "idle"
    /\ idx = 0
    /\ cur = NoEvent
    /\ processed = FALSE
    /\ pulled = <<>>
    /\ written = <<>>
    /\ source = "open"
    /\ out_created = FALSE
    /\ flushed = FALSE
    /\ result = NoResult
    /\ run = 0
    /\ init_calls = <<>>
    /\ elem_calls = <<>>
    /\ fin_calls = <<>>
    /\ flush_attempted = FALSE

(***************************************************************************)
(* SpecPath: optimize_path_data called on a string, then on its result.    *)
(***************************************************************************)
\* The characters of the enumerated strings.  No digit 5: a decimal tie
\* whose binary value is inexact rounds by the binary value.
PathAlphabet == {"M", "0", "1", "9", ".", "-", "e", " ", "x"}

\* The strings over PathAlphabet of length n.
StringsOfLen(n) == [1..n -> PathAlphabet]

StringsUpTo(n) == UNION {StringsOfLen(k) : k \in 0..n}

\* An exponent field of one digit: the decimal value is the f64's value.
SmallExponents(s) ==
    \A k \in 1..Len(s) :
        s[k] \in {"e", "E"} =>
            /\ ~(k + 2 <= Len(s) /\ s[k + 1] \in Digits /\ s[k + 2] \in Digits)
            /\ ~(k + 3 <= Len(s) /\ s[k + 1] = "-"
                  /\ s[k + 2] \in Digits /\ s[k + 3] \in Digits)

EnumeratedData == {s \in StringsUpTo(MaxLen) : SmallExponents(s)}

\* Strings with commands of both cases among numbers and separators.
CommandAlphabet == {"M", "z", "l", "1", " "}

CommandData == UNION {[1..k -> CommandAlphabet] : k \in 0..MaxLen}

\* The precision and the inputs of tests::test_path_optimization.
TestPrecision == 2

TestData ==
    { <<"M", " ", "1", "0", "0", ".", "0", "0", "0", " ",
        "2", "0", "0", ".", "0", "0", "0">>,
      <<"M", " ", "1", "0", ".", "1", "2", "3", ",", "2", "0", ".", "4", "5", "6",
        " ", "L", " ", "3", "0", ".", "7", "8", "9", ",", "4", "0", ".", "0", "1", "2">>,
      <<"m", " ", "5", ".", "1", "2", "3", ",", "5", ".", "4", "5", "6",
        " ", "l", " ", "1", "0", ".", "7", "8", "9", ",", "1", "0", ".", "0", "1", "2">> }

PathInit ==
    /\ overflow_checks \in BOOLEAN
    /\ \/ /\ path_data \in EnumeratedData \cup CommandData
          /\ \E P \in 0..MaxPrec : optimizer = PathOptimizerPlugin_new(P)
       \/ /\ path_data \in TestData
          /\ optimizer = PathOptimizerPlugin_new(TestPrecision)
    /\ optimized = <<>>
    /\ reoptimized = <<>>
    /\ collected = <<>>
    /\ path_pc = "start"
    /\ ElemIdle
    /\ ProcIdle
    /\ CliIdle

\* optimizer.optimize_path_data(path_data)
Optimize ==
    /\ path_pc = "start"
    /\ \E r \in {optimize_path_data(optimizer, path_data, overflow_checks)} :
           /\ optimizer' = r.self
           /\ optimized' = r.ret
           /\ path_pc' = IF r.panicked THEN "panicked" ELSE "once"
    /\ collected' = CollectedNumbers(path_data, optimizer.decimal_places)
    /\ UNCHANGED <<overflow_checks, path_data, reoptimized, elemVars, procVars, cliVars>>

\* optimizer.optimize_path_data(optimized)
Reoptimize ==
    /\ path_pc = "once"
    /\ \E r \in {optimize_path_data(optimizer, optimized, overflow_checks)} :
           /\ optimizer' = r.self
           /\ reoptimized' = r.ret
           /\ path_pc' = IF r.panicked THEN "panicked" ELSE "twice"
    /\ UNCHANGED <<overflow_checks, path_data, optimized, collected, elemVars, procVars, cliVars>>

PathNext == Optimize \/ Reoptimize

SpecPath == PathInit /\ [][PathNext]_vars

(***************************************************************************)
(* SpecElem: a PathOptimizerPlugin given elements one after another, with  *)
(* init called at any point between them.                                  *)
(***************************************************************************)
\* Elements given to one plugin.
MaxOffered == 2

\* Path data whose optimized text is shorter, as long, longer.
SampleData ==
    { <<"M", " ", "1", ".", "0">>, <<"1">>, <<".", "1">>, <<"1", " ", "1">> }

\* Attributes other than d: a plain value, one with a character that
\* push_attribute escapes, one with a byte that is not UTF-8.
OtherAttributes ==
    { [key |-> "id", value |-> <<"a">>],
      [key |-> "fill", value |-> <<"&", InvalidByte>>] }

AttributePool == OtherAttributes \cup {[key |-> "d", value |-> v] : v \in SampleData}

\* The attribute lists over the pool, no key twice.
AttributeLists ==
    UNION { {l \in [1..n -> AttributePool] :
                \A i, j \in 1..n : i # j => l[i].key # l[j].key} : n \in 0..3 }

ElementNames == {"path", "g", "svg:path"}

Elements == {[name |-> n, attrs |-> l] : n \in ElementNames, l \in AttributeLists}

HasData(e) == \E k \in 1..Len(e.attrs) : e.attrs[k].key = "d"

\* The value of the d attribute of an element that has one.
DataOf(e) == e.attrs[CHOOSE k \in 1..Len(e.attrs) : e.attrs[k].key = "d"].value

\* 1 for a path element with a d attribute, 0 for any other element.
Optimizable(e) == IF e.name = "path" /\ HasData(e) THEN 1 ELSE 0

\* len(original) - len(optimized), as an integer, for the d of a path element.
SavedBy(data, P) == Len(data) - Len(OptimizedText(data, P))

Saving(e, P) ==
    IF e.name = "path" /\ HasData(e) THEN SavedBy(FromUtf8Lossy(DataOf(e)), P) ELSE 0

ElemInit ==
    /\ overflow_checks \in BOOLEAN
    /\ \E P \in 0..MaxPrec : optimizer = PathOptimizerPlugin_new(P)
    /\ PathIdle
    /\ ElemIdle
    /\ ProcIdle
    /\ CliIdle

\* optimizer.init()
InitPlugin ==
    /\ elem_pc # "panicked"
    /\ optimizer' = PathOptimizerPlugin_init(optimizer)
    /\ with_data' = 0
    /\ saved_sum' = 0
    /\ UNCHANGED <<element, element_after, offered, elem_pc>>
    /\ UNCHANGED <<overflow_checks, pathVars, procVars, cliVars>>

\* optimizer.process_element(&mut e)
ProcessElement ==
    /\ elem_pc # "panicked"
    /\ offered < MaxOffered
    /\ \E e \in Elements :
       \E r \in {process_element(optimizer, e, overflow_checks)} :
           /\ element' = e
           /\ element_after' = r.element
           /\ optimizer' = r.self
           /\ elem_pc' = IF r.panicked THEN "panicked" ELSE "returned"
           /\ with_data' = with_data + Optimizable(e)
           /\ saved_sum' = saved_sum + Saving(e, optimizer.decimal_places)
    /\ offered' = offered + 1
    /\ UNCHANGED <<overflow_checks, pathVars, procVars, cliVars>>

ElemNext == InitPlugin \/ ProcessElement

SpecElem == ElemInit /\ [][ElemNext]_vars

(***************************************************************************)
(* SpecCli: the flags of `optimize` are turned into a PluginConfig, and    *)
(* SVGProcessorCLI::configure registers plugins on a fresh processor.      *)
(***************************************************************************)
\* --path-decimals, default_value = "2"
DefaultDecimals == 2

\* --preserve-ids absent, or given with one name or two.
PreserveIds == {None, Some(<<"a">>), Some(<<"a", "b">>)}

\* The flags of OptimizeArgs that configure plugins.
OptimizeArgs ==
    [optimize_paths    : BOOLEAN,
     path_decimals     : 0..MaxPrec \cup {DefaultDecimals},
     dedupe_gradients  : BOOLEAN,
     remove_ids        : BOOLEAN,
     remove_data_attrs : BOOLEAN,
     preserve_ids      : PreserveIds]

\* Option::unwrap_or_default of an Option<Vec<String>>
unwrap_or_default(opt) == IF opt.some THEN opt.val ELSE <<>>

\* impl From<&OptimizeArgs> for PluginConfig
PluginConfig_from(a) ==
    [path_optimizer        |-> IF a.optimize_paths
                               THEN Some([decimal_places |-> a.path_decimals])
                               ELSE None,
     gradient_deduplicator |-> a.dedupe_gradients,
     id_remover            |-> [enabled  |-> a.remove_ids,
                                preserve |-> unwrap_or_default(a.preserve_ids)],
     data_attr_remover     |-> a.remove_data_attrs]

\* One more plugin for each of the three other switches that is set.
Stubs(c) ==
    [k \in 1..((IF c.gradient_deduplicator THEN 1 ELSE 0)
                + (IF c.id_remover.enabled THEN 1 ELSE 0)
                + (IF c.data_attr_remover THEN 1 ELSE 0)) |-> [kind |-> "Dyn"]]

configure_AllSwitches(registered, c) ==
    (IF c.path_optimizer.some
     THEN Append(registered, PathOptimizerPlugin_new(c.path_optimizer.val.decimal_places))
     ELSE registered) \o Stubs(c)

\* SVGProcessorCLI::configure: the plugins of the processor afterwards.
configure(registered, c) ==
    IF c.path_optimizer.some
    THEN Append(registered, PathOptimizerPlugin_new(c.path_optimizer.val.decimal_places))
    ELSE registered

CliInit ==
    /\ overflow_checks \in BOOLEAN
    /\ optimizer = PathOptimizerPlugin_new(0)
    /\ PathIdle
    /\ ElemIdle
    /\ ProcIdle
    /\ args \in OptimizeArgs
    /\ config = PluginConfig_default
    /\ cli_pc = "parsed"

\* PluginConfig::from(&args)
Convert ==
    /\ cli_pc = "parsed"
    /\ config' = PluginConfig_from(args)
    /\ cli_pc' = "converted"
    /\ UNCHANGED <<args, overflow_checks, optimizer, pathVars, elemVars, procVars>>

\* cli.configure(config)
Configure ==
    /\ cli_pc = "converted"
    /\ plugins' = configure(plugins, config)
    /\ cli_pc' = "configured"
    /\ UNCHANGED <<idx, cur, processed, pulled, written, source, out_created, flushed,
                   result, run, init_calls, elem_calls, fin_calls, pc, flush_attempted>>
    /\ UNCHANGED <<args, config, overflow_checks, optimizer, pathVars, elemVars>>

CliNext == Convert \/ Configure

SpecCli == CliInit /\ [][CliNext]_vars

(***************************************************************************)
(* Spec: SVGProcessor.  Plugins are registered while no run is under way;  *)
(* process_file runs init on every plugin, opens the files, then reads,    *)
(* processes and writes one event at a time, then finalizes and flushes.   *)
(* A plugin is a PathOptimizerPlugin or any other implementor of SVGPlugin *)
(* ("Dyn"), whose init, process_element and finalize may each return Err.  *)
(***************************************************************************)
\* Plugins registered on one processor.
MaxPlugins == 2
\* Events one source yields before its end.
MaxEvents == 2
\* Runs of process_file on one processor.
MaxRuns == 2

\* Some other implementor of SVGPlugin.
DynPlugin == [kind |-> "Dyn"]

Plugins == {PathOptimizerPlugin_new(DefaultDecimals), DynPlugin}

PathEvent(type, attrs) == [type |-> type, elem |-> [name |-> "path", attrs |-> attrs]]

\* The d of the path in tests::test_path_optimization of the processor.
TestPathData ==
    <<"M", " ", "1", "0", "0", ".", "0", "0", "0", " ", "2", "0", "0", ".", "0", "0", "0",
      " ", "L", " ", "3", "0", "0", ".", "0", "0", "0", " ", "4", "0", "0", ".", "0", "0", "0">>

\* <path d="M 100.000 200.000 L 300.000 400.000"/>
TestEvent == PathEvent("Empty", <<[key |-> "d", value |-> TestPathData]>>)

\* The events a source yields: a declaration, text, a start and an end tag,
\* path elements with a d that shrinks, with a d that grows, without d, and
\* the path of the test.
SourceEvents ==
    {TestEvent} \cup
    { [type |-> "Decl", elem |-> NoElement],
      [type |-> "Text", elem |-> NoElement],
      [type |-> "Start", elem |-> [name |-> "g", attrs |-> <<[key |-> "id", value |-> <<"a">>]>>]],
      [type |-> "End", elem |-> NoElement],
      PathEvent("Empty", <<[key |-> "d", value |-> <<"M", " ", "1", ".", "0">>],
                           [key |-> "id", value |-> <<"a">>]>>),
      PathEvent("Start", <<[key |-> "d", value |-> <<".", "1">>]>>),
      PathEvent("Empty", <<[key |-> "id", value |-> <<"a">>]>>) }

IsElementEvent_StartOnly(ev) == ev.type = "Start"

\* Event::Start(elem) | Event::Empty(elem)
IsElementEvent(ev) == ev.type \in {"Start", "Empty"}

Ok == [kind |-> "Ok", unit |-> 0]

Err(kind) == [kind |-> kind, unit |-> 0]

UnitErr(kind, k) == [kind |-> kind, unit |-> k]

Init ==
    /\ overflow_checks \in BOOLEAN
    /\ optimizer = PathOptimizerPlugin_new(DefaultDecimals)
    /\ PathIdle
    /\ ElemIdle
    /\ ProcIdle
    /\ CliIdle

\* SVGProcessor::add_plugin
add_plugin ==
    /\ pc = "idle"
    /\ Len(plugins) < MaxPlugins
    /\ \E p \in Plugins : plugins' = Append(plugins, p)
    /\ UNCHANGED <<idx, cur, processed, pulled, written, source, out_created, flushed,
                   result, run, init_calls, elem_calls, fin_calls, pc, flush_attempted>>
    /\ UNCHANGED <<overflow_checks, optimizer, pathVars, elemVars, cliVars>>

\* process_file is entered.
StartRun ==
    /\ pc = "idle"
    /\ run < MaxRuns
    /\ run' = run + 1
    /\ pc' = "init"
    /\ idx' = 1
    /\ cur' = NoEvent
    /\ processed' = FALSE
    /\ pulled' = <<>>
    /\ written' = <<>>
    /\ source' = "open"
    /\ out_created' = FALSE
    /\ flushed' = FALSE
    /\ result' = NoResult
    /\ init_calls' = <<>>
    /\ elem_calls' = <<>>
    /\ fin_calls' = <<>>
    /\ flush_attempted' = FALSE
    /\ UNCHANGED <<plugins, overflow_checks, optimizer, pathVars, elemVars, cliVars>>

\* What a run leaves alone whatever it does.
RunFrame == UNCHANGED <<run, overflow_checks, optimizer, pathVars, elemVars, cliVars>>

\* process_file returns r before the writer exists.
Return(r) == pc' = "idle" /\ result' = r /\ UNCHANGED flush_attempted

ReturnDropping_Forgotten(r) == pc' = "idle" /\ result' = r /\ UNCHANGED flush_attempted

\* process_file returns r once the writer exists: the BufWriter is dropped,
\* and its drop writes the buffer out, whatever becomes of the attempt.
ReturnDropping(r) == pc' = "idle" /\ result' = r /\ flush_attempted' = TRUE

\* plugin.init() of a plugin: the plugin afterwards.
init(self) == IF self.kind = "PathOptimizer" THEN PathOptimizerPlugin_init(self) ELSE self

\* The log of an init or finalize call.
Called(k, ok) == [unit |-> k, ok |-> ok]

\* Whether a call on the plugin can return Err.
CanFail(self) == self.kind = "Dyn"

InitStep_KeepGoing ==
    /\ pc = "init"
    /\ idx <= Len(plugins)
    /\ \E ok \in {TRUE, ~CanFail(plugins[idx])} :
           init_calls' = Append(init_calls, Called(idx, ok))
    /\ plugins' = [plugins EXCEPT ![idx] = init(@)]
    /\ idx' = idx + 1
    /\ UNCHANGED <<pc, result, cur, processed, pulled, written, source, out_created,
                   flushed, elem_calls, fin_calls>>
    /\ UNCHANGED flush_attempted
    /\ RunFrame

\* for plugin in &mut self.plugins { plugin.init()?; } : one call.
InitStep ==
    /\ pc = "init"
    /\ idx <= Len(plugins)
    /\ \/ /\ plugins' = [plugins EXCEPT ![idx] = init(@)]
          /\ init_calls' = Append(init_calls, Called(idx, TRUE))
          /\ idx' = idx + 1
          /\ UNCHANGED <<pc, result, flush_attempted>>
       \/ /\ CanFail(plugins[idx])
          /\ init_calls' = Append(init_calls, Called(idx, FALSE))
          /\ Return(UnitErr("InitError", idx))
          /\ UNCHANGED <<plugins, idx>>
    /\ UNCHANGED <<cur, processed, pulled, written, source, out_created, flushed,
                   elem_calls, fin_calls>>
    /\ RunFrame

OpenInput_CreatesFirst ==
    /\ pc = "init"
    /\ idx > Len(plugins)
    /\ out_created' = TRUE
    /\ \/ pc' = "create" /\ UNCHANGED <<result, flush_attempted>>
       \/ Return(Err("OpenError"))
    /\ UNCHANGED <<plugins, idx, cur, processed, pulled, written, source, flushed,
                   init_calls, elem_calls, fin_calls>>
    /\ RunFrame

\* File::open(input_path)?
OpenInput ==
    /\ pc = "init"
    /\ idx > Len(plugins)
    /\ \/ pc' = "create" /\ UNCHANGED <<result, flush_attempted>>
       \/ Return(Err("OpenError"))
    /\ UNCHANGED <<plugins, idx, cur, processed, pulled, written, source, out_created,
                   flushed, init_calls, elem_calls, fin_calls>>
    /\ RunFrame

\* File::create(output_path)?, then the reader, the writer and the locals.
CreateOutput ==
    /\ pc = "create"
    /\ \/ /\ out_created' = TRUE
          /\ pc' = "read"
          /\ UNCHANGED <<result, flush_attempted>>
       \/ /\ Return(Err("CreateError"))
          /\ UNCHANGED out_created
    /\ UNCHANGED <<plugins, idx, cur, processed, pulled, written, source, flushed,
                   init_calls, elem_calls, fin_calls>>
    /\ RunFrame

\* reader.read_event_into(..) gives Ok(event).
ReadEvent ==
    /\ pc = "read"
    /\ Len(pulled) < MaxEvents
    /\ \E ev \in SourceEvents :
           /\ cur' = ev
           /\ pulled' = Append(pulled, ev)
    /\ pc' = "process"
    /\ idx' = 1
    /\ elem_calls' = <<>>
    /\ UNCHANGED <<plugins, processed, written, source, out_created, flushed, result,
                   init_calls, fin_calls>>
    /\ UNCHANGED flush_attempted
    /\ RunFrame

\* reader.read_event_into(..) gives Ok(Event::Eof): break.
ReadEof ==
    /\ pc = "read"
    /\ source' = "eof"
    /\ pc' = "finalize"
    /\ idx' = 1
    /\ UNCHANGED <<plugins, cur, processed, pulled, written, out_created, flushed,
                   result, init_calls, elem_calls, fin_calls>>
    /\ UNCHANGED flush_attempted
    /\ RunFrame

ReadError_AsEof ==
    /\ pc = "read"
    /\ source' = "error"
    /\ pc' = "finalize"
    /\ idx' = 1
    /\ UNCHANGED <<plugins, cur, processed, pulled, written, out_created, flushed,
                   result, init_calls, elem_calls, fin_calls>>
    /\ UNCHANGED flush_attempted
    /\ RunFrame

\* reader.read_event_into(..) gives Err(e): return Err(InvalidData).
ReadError ==
    /\ pc = "read"
    /\ source' = "error"
    /\ ReturnDropping(Err("ParseError"))
    /\ UNCHANGED <<plugins, idx, cur, processed, pulled, written, out_created,
                   flushed, init_calls, elem_calls, fin_calls>>
    /\ RunFrame

\* The element a plugin other than the path optimizer may leave.
DynResults(elem) == {elem, [elem EXCEPT !.attrs = <<>>]}

\* The log of a process_element call.
Call(k, given, left, outcome) ==
    [unit |-> k, given |-> given, left |-> left, outcome |-> outcome]

\* process_event, for Event::Start | Event::Empty: plugin.process_element(elem)?
\* of the path optimizer at idx.
TransformPath ==
    /\ pc = "process"
    /\ IsElementEvent(cur)
    /\ idx <= Len(plugins)
    /\ plugins[idx].kind = "PathOptimizer"
    /\ \E r \in {process_element(plugins[idx], cur.elem, overflow_checks)} :
           /\ elem_calls' = Append(elem_calls, Call(idx, cur.elem, r.element,
                                                    IF r.panicked THEN "panic" ELSE "ok"))
           /\ IF r.panicked
              THEN /\ pc' = "panicked"
                   /\ flush_attempted' \in BOOLEAN
                   /\ UNCHANGED <<plugins, cur, idx>>
              ELSE /\ plugins' = [plugins EXCEPT ![idx] = r.self]
                   /\ cur' = [cur EXCEPT !.elem = r.element]
                   /\ idx' = idx + 1
                   /\ UNCHANGED <<pc, flush_attempted>>
    /\ UNCHANGED <<processed, pulled, written, source, out_created, flushed, result,
                   init_calls, fin_calls>>
    /\ RunFrame

TransformDyn_SkipFailed ==
    /\ pc = "process"
    /\ IsElementEvent(cur)
    /\ idx <= Len(plugins)
    /\ plugins[idx].kind = "Dyn"
    /\ \/ \E e \in DynResults(cur.elem) :
              /\ elem_calls' = Append(elem_calls, Call(idx, cur.elem, e, "ok"))
              /\ cur' = [cur EXCEPT !.elem = e]
       \/ /\ elem_calls' = Append(elem_calls, Call(idx, cur.elem, cur.elem, "err"))
          /\ UNCHANGED cur
    /\ idx' = idx + 1
    /\ UNCHANGED <<pc, result, flush_attempted>>
    /\ UNCHANGED <<plugins, processed, pulled, written, source, out_created, flushed,
                   init_calls, fin_calls>>
    /\ RunFrame

\* plugin.process_element(elem)? of another plugin at idx.
TransformDyn ==
    /\ pc = "process"
    /\ IsElementEvent(cur)
    /\ idx <= Len(plugins)
    /\ plugins[idx].kind = "Dyn"
    /\ \/ \E e \in DynResults(cur.elem) :
              /\ elem_calls' = Append(elem_calls, Call(idx, cur.elem, e, "ok"))
              /\ cur' = [cur EXCEPT !.elem = e]
              /\ idx' = idx + 1
              /\ UNCHANGED <<pc, result, flush_attempted>>
       \/ /\ elem_calls' = Append(elem_calls, Call(idx, cur.elem, cur.elem, "err"))
          /\ ReturnDropping(UnitErr("TransformError", idx))
          /\ UNCHANGED <<cur, idx>>
    /\ UNCHANGED <<plugins, processed, pulled, written, source, out_created, flushed,
                   init_calls, fin_calls>>
    /\ RunFrame

WriteEvent_ThenFinalize ==
    /\ pc = "process"
    /\ ~IsElementEvent(cur) \/ idx > Len(plugins)
    /\ \/ /\ written' = Append(written, cur)
          /\ processed' = TRUE
          /\ cur' = NoEvent
          /\ pc' = "read"
          /\ UNCHANGED idx
       \/ /\ pc' = "finalize"
          /\ idx' = 1
          /\ UNCHANGED <<written, processed, cur>>
    /\ UNCHANGED <<plugins, pulled, source, out_created, flushed, result, init_calls,
                   elem_calls, fin_calls>>
    /\ UNCHANGED flush_attempted
    /\ RunFrame

\* writer.write_event(processed_event)?; processed = true;
WriteEvent ==
    /\ pc = "process"
    /\ ~IsElementEvent(cur) \/ idx > Len(plugins)
    /\ \/ /\ written' = Append(written, cur)
          /\ processed' = TRUE
          /\ cur' = NoEvent
          /\ pc' = "read"
          /\ UNCHANGED <<result, flush_attempted>>
       \/ /\ ReturnDropping(Err("WriteError"))
          /\ UNCHANGED <<written, processed, cur>>
    /\ UNCHANGED <<plugins, idx, pulled, source, out_created, flushed, init_calls,
                   elem_calls, fin_calls>>
    /\ RunFrame

\* for plugin in &mut self.plugins { plugin.finalize()?; } : one call.
FinalizeStep ==
    /\ pc = "finalize"
    /\ idx <= Len(plugins)
    /\ \/ /\ fin_calls' = Append(fin_calls, Called(idx, TRUE))
          /\ idx' = idx + 1
          /\ UNCHANGED <<pc, result, flush_attempted>>
       \/ /\ CanFail(plugins[idx])
          /\ fin_calls' = Append(fin_calls, Called(idx, FALSE))
          /\ ReturnDropping(UnitErr("FinalizeError", idx))
          /\ UNCHANGED idx
    /\ UNCHANGED <<plugins, cur, processed, pulled, written, source, out_created,
                   flushed, init_calls, elem_calls>>
    /\ RunFrame

Outcome_Unchecked(was_processed) == Ok

\* if !processed { return Err(InvalidData, "No SVG content was processed") }
\* ...; Ok(())
Outcome(was_processed) == IF ~was_processed THEN Err("EmptyDocument") ELSE Ok

FlushAndReturn_Unflushed ==
    /\ pc = "finalize"
    /\ idx > Len(plugins)
    /\ ReturnDropping(Outcome(processed))
    /\ UNCHANGED <<plugins, idx, cur, processed, pulled, written, source, out_created,
                   flushed, init_calls, elem_calls, fin_calls>>
    /\ RunFrame

\* inner.flush()?; then the outcome.
FlushAndReturn ==
    /\ pc = "finalize"
    /\ idx > Len(plugins)
    /\ \/ /\ flushed' = TRUE
          /\ ReturnDropping(Outcome(processed))
       \/ /\ written # <<>>
          /\ ReturnDropping(Err("FlushError"))
          /\ UNCHANGED flushed
    /\ UNCHANGED <<plugins, idx, cur, processed, pulled, written, source, out_created,
                   init_calls, elem_calls, fin_calls>>
    /\ RunFrame

Next ==
    \/ add_plugin
    \/ StartRun
    \/ InitStep
    \/ OpenInput
    \/ CreateOutput
    \/ ReadEvent
    \/ ReadEof
    \/ ReadError
    \/ TransformPath
    \/ TransformDyn
    \/ WriteEvent
    \/ FinalizeStep
    \/ FlushAndReturn

Spec == Init /\ [][Next]_vars

\* The steps of a run of process_file other than the path optimizer's
\* process_element.
OtherStep ==
    \/ InitStep
    \/ OpenInput
    \/ CreateOutput
    \/ ReadEvent
    \/ ReadEof
    \/ ReadError
    \/ TransformDyn
    \/ WriteEvent
    \/ FinalizeStep
    \/ FlushAndReturn

\* The next step is the path optimizer's process_element: what enables
\* TransformPath.
PathDue ==
    /\ pc = "process"
    /\ IsElementEvent(cur)
    /\ idx <= Len(plugins)
    /\ plugins[idx].kind = "PathOptimizer"

\* process_file, once entered, runs on: it is one thread that nothing
\* blocks.  The second conjunct is the weak fairness of TransformPath with
\* its enabling condition written out.
LiveSpec ==
    /\ Spec
    /\ WF_vars(OtherStep)
    /\ ([]<>(~PathDue) \/ []<><<TransformPath>>_vars)

(***************************************************************************)
(* Properties of optimize_path_data, checked under SpecPath.               *)
(***************************************************************************)
\* The number of characters of s after its first '.', 0 without one.
FractionLen(s) == IF Count(s, ".") = 0 THEN 0 ELSE Len(s) - FirstOf(s, {"."})

EndsIn(s, c) == s # <<>> /\ Last(s) = c

\* At most P digits after the point, no trailing '.', and no trailing zero
\* behind a point.
Canonical(text, P) ==
    /\ FractionLen(text) <= P
    /\ ~EndsIn(text, ".")
    /\ ~(Count(text, ".") > 0 /\ EndsIn(text, "0"))

\* The first call has run its scan.
Scanned == path_pc \in {"once", "twice", "panicked"}

\* Numbers k and k + 1 of the first call both parsed and only separators
\* lie between them in path_data.
AdjacentNumbers(k) ==
    /\ collected[k].parsed
    /\ collected[k + 1].parsed
    /\ \A n \in (collected[k].to + 1)..(collected[k + 1].from - 1) :
           IsSeparator(path_data[n])

\* Exactly one character, a space, lies between what numbers k and k + 1
\* emitted.
OneSpaceBetween(k) ==
    /\ collected[k + 1].at = collected[k].at + Len(collected[k].emitted) + 1
    /\ optimized[collected[k + 1].at - 1] = " "

\* What tests::test_path_optimization expects of each of its inputs.
TestExpected ==
    { <<"M", "1", "0", "0", " ", "2", "0", "0">>,
      <<"M", "1", "0", ".", "1", "2", " ", "2", "0", ".", "4", "6",
        "L", "3", "0", ".", "7", "9", " ", "4", "0", ".", "0", "1">>,
      <<"m", "5", ".", "1", "2", " ", "5", ".", "4", "6",
        "l", "1", "0", ".", "7", "9", " ", "1", "0", ".", "0", "1">> }

\* C1: whenever two numeric tokens are adjacent in the input, exactly one
\* space separates their rendered forms in the output, and the strings of
\* test_path_optimization give the outputs the test asserts.
C1_OneSpaceBetweenNumbers ==
    path_pc = "once" =>
        /\ \A k \in 1..(Len(collected) - 1) : AdjacentNumbers(k) => OneSpaceBetween(k)
        /\ path_data \in TestData => optimized \in TestExpected

\* C2: optimizing the optimized string again, at the same precision, gives
\* the optimized string.
C2_Idempotent == path_pc = "twice" => reoptimized = optimized

\* C3 as stated: the text emitted for every collected number, parsed or not,
\* has at most P digits after the point and ends neither in '.' nor in a
\* redundant zero.
C3_EveryTokenCanonical ==
    Scanned =>
        \A k \in 1..Len(collected) :
            Canonical(collected[k].emitted, optimizer.decimal_places)

\* C3 as amended: the text emitted for every collected number that parses as
\* a float has at most P digits after the point and ends neither in '.' nor
\* in a redundant zero; a number that does not parse is emitted as collected.
C3_ParsedTokensCanonical ==
    Scanned =>
        \A k \in 1..Len(collected) :
            IF collected[k].parsed
            THEN /\ Canonical(collected[k].emitted, optimizer.decimal_places)
                 /\ \/ path_pc = "panicked"
                    \/ SubSeq(optimized, collected[k].at,
                              collected[k].at + Len(collected[k].emitted) - 1)
                           = collected[k].emitted
            ELSE collected[k].emitted = collected[k].raw

\* A call returned after collecting a number with more fractional digits than
\* the precision, which parsed, and a number which did not parse.
C3_Witness ==
    /\ path_pc = "once"
    /\ \E k \in 1..Len(collected) :
           /\ collected[k].parsed
           /\ FractionLen(collected[k].raw) > optimizer.decimal_places
           /\ collected[k].emitted # collected[k].raw
           /\ collected[k].emitted # <<>>
    /\ \E k \in 1..Len(collected) :
           ~collected[k].parsed /\ ~Canonical(collected[k].raw, optimizer.decimal_places)

(***************************************************************************)
(* Properties of process_element, checked under SpecElem.                  *)
(***************************************************************************)
Keys(attrs) == [k \in 1..Len(attrs) |-> attrs[k].key]

IsOther(attr) == attr.key # "d"

\* C4: a path element with a d attribute comes back with its non-d
\* attributes in their original relative order, followed by d, whose value
\* is the optimized path data, as the last attribute.
C4_DataLast ==
    (elem_pc = "returned" /\ element.name = "path" /\ HasData(element)) =>
        /\ element_after.name = element.name
        /\ Keys(element_after.attrs) = Keys(SelectSeq(element.attrs, IsOther)) \o <<"d">>
        /\ Last(element_after.attrs).value
               = OptimizedText(DataOf(element), optimizer.decimal_places)

\* A path element whose d was neither first nor last came back.
C4_Witness ==
    /\ elem_pc = "returned"
    /\ element.name = "path"
    /\ Len(element.attrs) = 3
    /\ element.attrs[2].key = "d"
    /\ element_after.attrs # element.attrs
    /\ DataOf(element_after) # DataOf(element)

\* C5: an element that is not named path, or has no d attribute, comes back
\* with its attribute list as it was.
C5_OthersUnchanged ==
    (elem_pc = "returned" /\ (element.name # "path" \/ ~HasData(element))) =>
        element_after = element

\* Both cases came back: this one is a path without d, with attributes.
C5_Witness ==
    /\ elem_pc = "returned"
    /\ element.name = "path"
    /\ ~HasData(element)
    /\ Len(element.attrs) = 2
    /\ element_after = element


\* A usize holds the integer n.
UsizeEquals(u, n) == n >= 0 /\ u = ToUsize(n)

\* C19: path_count is the number of path elements with a d attribute given
\* to process_element since the last init (or since construction).
C19_CountsPathsWithData ==
    elem_pc # "panicked" => UsizeEquals(optimizer.path_count, with_data)

\* C20: no call panics, and total_chars_saved is the sum, negative terms
\* included, of len(original) - len(optimized) over the d values optimized
\* since the last init (or since construction).
C20_SignedSum ==
    /\ elem_pc # "panicked"
    /\ UsizeEquals(optimizer.total_chars_saved, saved_sum)

(***************************************************************************)
(* Properties of process_file, checked under Spec.                         *)
(***************************************************************************)
\* The calls are on the plugins 1, 2, ... in this order, one call each.
InOrder(calls) == \A k \in 1..Len(calls) : calls[k].unit = k

AllOk(calls) == \A k \in 1..Len(calls) : calls[k].ok

Returned == pc = "idle" /\ run > 0

HasElement(ev) == ev.elem # NoElement

\* C6, as amended: a run whose source reports end of stream before any
\* event never reports success.  It returns the empty-document error exactly
\* when every finalize and the flush succeeded, and otherwise the error of
\* the finalize or of the flush that failed.
C6_NoEventsFails ==
    (Returned /\ source = "eof" /\ pulled = <<>>) =>
        /\ result.kind \in {"EmptyDocument", "FinalizeError", "FlushError"}
        /\ result.kind = "EmptyDocument" <=> (flushed /\ AllOk(fin_calls))

C6_Witness ==
    /\ Returned
    /\ source = "eof"
    /\ pulled = <<>>
    /\ result.kind = "EmptyDocument"
    /\ plugins # <<>>

\* C6, as stated: a run over a document without any element (only a
\* declaration, a comment or text) does not report success.
C6_ZeroElementsFails ==
    (Returned /\ source = "eof" /\ \A k \in 1..Len(pulled) : ~HasElement(pulled[k])) =>
        result.kind # "Ok"

\* C7: in the step in which the source reports malformed markup, the run
\* returns a parse error, and that step pulls no event, writes none, takes
\* none back and calls no finalize; nothing more happens in that run.
C7_MalformedAborts ==
    [][source' = "error" =>
           /\ pc' = "idle"
           /\ result'.kind = "ParseError"
           /\ pulled' = pulled
           /\ written' = written
           /\ fin_calls' = fin_calls]_vars

C7_Witness ==
    /\ source = "error"
    /\ result.kind = "ParseError"
    /\ written # <<>>

\* C8: init is called on the plugins in registration order, once each, and
\* on all of them before the first event is read; a failed init is the last
\* one called, the run returns its error, and no event is read.
C8_InitInOrder ==
    /\ InOrder(init_calls)
    /\ \A k \in 1..Len(init_calls) :
           ~init_calls[k].ok =>
               /\ k = Len(init_calls)
               /\ pc = "idle"
               /\ result = UnitErr("InitError", k)
               /\ pulled = <<>>
    /\ pc = "init" => pulled = <<>> /\ Len(init_calls) = idx - 1
    /\ pc \notin {"idle", "init"} => Len(init_calls) = Len(plugins)

C8_Witness ==
    /\ Len(plugins) = 2
    /\ result = UnitErr("InitError", 1)
    /\ Len(init_calls) = 1
    /\ run = 2

\* What the k-th process_element call for the last event read should be given.
GivenTo(k) == IF k = 1 THEN Last(pulled).elem ELSE elem_calls[k - 1].left

\* C9, as amended: for an element event, process_element is called on the
\* plugins in registration order, at most once each, each one given the
\* element as the one before left it; a call that fails or panics is the
\* last one and ends the run; an element event that is written has been given
\* to every plugin; for every other kind of event no plugin is called.
C9_EachUnitOnceInOrder ==
    /\ InOrder(elem_calls)
    /\ \A k \in 1..Len(elem_calls) :
           /\ elem_calls[k].given = GivenTo(k)
           /\ elem_calls[k].outcome # "ok" =>
                  k = Len(elem_calls) /\ pc \in {"idle", "panicked"}
    /\ (pulled # <<>> /\ ~HasElement(Last(pulled))) => elem_calls = <<>>
    /\ (pc = "read" /\ pulled # <<>> /\ HasElement(Last(pulled))) =>
           /\ Len(elem_calls) = Len(plugins)
           /\ Last(written).elem = GivenTo(Len(plugins) + 1)

C9_Witness ==
    /\ pc = "read"
    /\ Len(elem_calls) = 2
    /\ elem_calls[1].left # elem_calls[1].given
    /\ elem_calls[2].left # elem_calls[2].given

\* C9, as stated: when the handling of an element event is over, every
\* registered plugin has been called for it.
C9_EveryUnitCalled ==
    [][(pc = "process" /\ pc' # "process" /\ HasElement(Last(pulled))) =>
           Len(elem_calls') = Len(plugins)]_vars

\* C10: finalize is called on the plugins in registration order, at most
\* once each in a run, and only when the source has reported its end, every
\* event read has been written, and no read, process_element or write has
\* failed in the run.
C10_FinalizeAfterEnd ==
    /\ InOrder(fin_calls)
    /\ fin_calls # <<>> =>
           /\ source = "eof"
           /\ Len(written) = Len(pulled)
           /\ cur = NoEvent
           /\ \A k \in 1..Len(elem_calls) : elem_calls[k].outcome = "ok"
           /\ result.kind \notin {"ParseError", "TransformError", "WriteError"}
           /\ pc # "panicked"

C10_Witness ==
    /\ Len(fin_calls) = 2
    /\ Len(written) = 2
    /\ run = 2


\* What tests::test_path_optimization expects the output to contain as d.
TestPathExpected ==
    <<"M", "1", "0", "0", " ", "2", "0", "0", "L", "3", "0", "0", " ", "4", "0", "0">>

\* C11: the events written are the events read so far, one for one and in
\* order: an event other than an element is written as read, an element
\* keeps its kind and name, at most one event is read and not yet written,
\* and none while the next is read; with the path optimizer at precision 2
\* as the only plugin, the path of the test is written with
\* d="M100 200L300 400".
C11_WrittenFollowsPulled ==
    /\ Len(written) <= Len(pulled)
    /\ Len(pulled) <= Len(written) + 1
    /\ pc = "read" => Len(written) = Len(pulled)
    /\ pc = "process" => Len(written) + 1 = Len(pulled) /\ cur # NoEvent
    /\ \A k \in 1..Len(written) :
           /\ written[k].type = pulled[k].type
           /\ written[k].elem.name = pulled[k].elem.name
           /\ ~HasElement(pulled[k]) => written[k] = pulled[k]
           /\ (/\ pc # "idle"
               /\ Len(plugins) = 1
               /\ plugins[1].kind = "PathOptimizer"
               /\ pulled[k] = TestEvent) =>
                  DataOf(written[k].elem) = TestPathExpected

\* The command letters of a string, in order.
IsCommand(c) == c \in Commands

CommandsOf(s) == SelectSeq(s, IsCommand)

\* C12: the command letters of the output of optimize_path_data are the
\* command letters of its input: the same letters, in the same case and
\* order; this holds for the second call on the output as well.
C12_CommandsKept ==
    /\ path_pc \in {"once", "twice"} => CommandsOf(optimized) = CommandsOf(path_data)
    /\ path_pc = "twice" => CommandsOf(reoptimized) = CommandsOf(path_data)

C12_Witness ==
    /\ path_pc = "once"
    /\ CommandsOf(path_data) = <<"z", "M", "l">>
    /\ Len(optimized) < Len(path_data)

\* C13: in the output of optimize_path_data no command letter comes right
\* after a space.
C13_NoSpaceBeforeCommand ==
    path_pc \in {"once", "twice"} =>
        \A k \in 2..Len(optimized) : IsCommand(optimized[k]) => optimized[k - 1] # " "

\* C16: a finalize that fails is the last one called, the run returns that
\* plugin's error, and the flush of the writer's buffer is attempted before
\* process_file returns.
C16_FinalizeFailureAborts ==
    \A k \in 1..Len(fin_calls) :
        ~fin_calls[k].ok =>
            /\ k = Len(fin_calls)
            /\ pc = "idle"
            /\ result = UnitErr("FinalizeError", k)
            /\ flush_attempted

C16_Witness ==
    /\ Len(plugins) = 2
    /\ Len(fin_calls) = 1
    /\ ~fin_calls[1].ok
    /\ result = UnitErr("FinalizeError", 1)
    /\ written # <<>>
    /\ flush_attempted

\* C17, as amended: process_file returns Ok only when the flush succeeded
\* and an event was written; a run whose source ends before any event
\* returns the empty-document error, after a successful flush, unless a
\* finalize failed, and then it returns that plugin's error.
C17_SuccessOnlyFlushed ==
    /\ result.kind = "Ok" => flushed /\ processed /\ written # <<>> /\ source = "eof"
    /\ (Returned /\ source = "eof" /\ pulled = <<>>) =>
           IF AllOk(fin_calls)
           THEN result.kind = "EmptyDocument" /\ flushed
           ELSE result = UnitErr("FinalizeError", Len(fin_calls))

C17_Witness ==
    /\ result.kind = "Ok"
    /\ flushed
    /\ Len(written) = 2
    /\ Len(plugins) = 2

\* C17, as stated: Ok only after a successful flush with an event
\* processed, and the empty-document error whenever the source ends before
\* any event.
C17_EmptyAlwaysReported ==
    /\ result.kind = "Ok" => flushed /\ processed
    /\ (Returned /\ source = "eof" /\ pulled = <<>>) => result.kind = "EmptyDocument"

\* C18: a process_element that fails is the last call for its element, the
\* run returns that plugin's error, the element is not written, no event is
\* read after it, and no finalize is called.
C18_TransformFailureAborts ==
    \A k \in 1..Len(elem_calls) :
        elem_calls[k].outcome = "err" =>
            /\ k = Len(elem_calls)
            /\ pc = "idle"
            /\ result = UnitErr("TransformError", k)
            /\ Len(written) + 1 = Len(pulled)
            /\ source = "open"
            /\ fin_calls = <<>>

C18_Witness ==
    /\ Len(plugins) = 2
    /\ result = UnitErr("TransformError", 1)
    /\ Len(elem_calls) = 1
    /\ Len(pulled) = 2
    /\ Len(written) = 1

(***************************************************************************)
(* Properties of the command line's configuration, checked under SpecCli.  *)
(***************************************************************************)
\* C14: the PluginConfig made from the flags holds dedupe_gradients,
\* remove_ids, preserve_ids (an empty list when absent) and
\* remove_data_attrs as given, and configure on a fresh processor registers
\* one path optimizer with decimal_places = path_decimals when
\* optimize_paths is set and nothing otherwise.
C14_OnlyPathOptimizer ==
    /\ cli_pc \in {"converted", "configured"} =>
           /\ config.gradient_deduplicator = args.dedupe_gradients
           /\ config.id_remover.enabled = args.remove_ids
           /\ config.id_remover.preserve =
                  (IF args.preserve_ids.some THEN args.preserve_ids.val ELSE <<>>)
           /\ config.data_attr_remover = args.remove_data_attrs
    /\ cli_pc = "configured" =>
           plugins = IF args.optimize_paths
                     THEN <<[kind              |-> "PathOptimizer",
                             decimal_places    |-> args.path_decimals,
                             path_count        |-> UsizeZero,
                             total_chars_saved |-> UsizeZero]>>
                     ELSE <<>>

C14_Witness ==
    /\ cli_pc = "configured"
    /\ args.optimize_paths
    /\ args.path_decimals = 0
    /\ args.dedupe_gradients
    /\ args.remove_ids
    /\ args.remove_data_attrs
    /\ args.preserve_ids.some
    /\ Len(plugins) = 1

(***************************************************************************)
(* Progress of process_file, checked under LiveSpec.                       *)
(***************************************************************************)
\* The phase of a run: Initializing (with the opening of the files),
\* Streaming, Finalizing, and the end of the run.
Phase(p) ==
    CASE p \in {"init", "create"} -> 1
      [] p \in {"read", "process"} -> 2
      [] p = "finalize" -> 3
      [] OTHER -> 4

\* C15: a run that was entered comes to an end, where process_file has
\* returned Ok or an error, and within a run the phases only follow one
\* another in the order Initializing, Streaming, Finalizing, end.
C15_RunsTerminate ==
    /\ [][run' = run => Phase(pc') >= Phase(pc)]_vars
    /\ \A r \in 1..MaxRuns :
           (run = r /\ pc = "init") ~> (run = r /\ pc = "idle" /\ result # NoResult)

(***************************************************************************)
(* Counters of the path optimizer over several runs of one processor.      *)
(***************************************************************************)
\* The number of path elements among the first n events.
RECURSIVE PathsAmong(_, _)
PathsAmong(events, n) ==
    IF n = 0
    THEN 0
    ELSE PathsAmong(events, n - 1) + (IF IsPathElement(events[n].elem) THEN 1 ELSE 0)

\* The number of path elements of this run that were given to plugin k: all
\* that were read, but the last one when an earlier plugin failed on it.
PathsGivenTo(k) ==
    PathsAmong(pulled, Len(pulled))
        - (IF result.kind = "TransformError" /\ result.unit < k
              /\ IsPathElement(Last(pulled).elem)
           THEN 1 ELSE 0)

\* Plugin k is a path optimizer.
IsOptimizer(k) == plugins[k].kind = "PathOptimizer"

\* init was called on plugin k in this run.
InitializedInRun(k) == k <= Len(init_calls) /\ init_calls[k].ok

\* What a run whose only plugin is the path optimizer saved on the first n
\* events, each written as the plugin left it: the lengths of the d read
\* less those of the d written, accumulated as the plugin accumulates them.
RECURSIVE SavedInRun(_)
SavedInRun(n) ==
    IF n = 0
    THEN UsizeZero
    ELSE IF IsPathElement(pulled[n].elem) /\ HasData(pulled[n].elem)
         THEN AccumulateSaved(SavedInRun(n - 1), Len(DataOf(pulled[n].elem)),
                              Len(DataOf(written[n].elem)), overflow_checks).val
         ELSE SavedInRun(n - 1)

\* C21, as amended: when a run has returned, the counters of every path
\* optimizer whose init was called in that run are those of the elements of
\* that run alone: path_count is the number of path elements the run gave
\* it, total_chars_saved is zero when the run gave it none, and when it is
\* the only plugin and every event read was written, total_chars_saved is
\* what was saved on the events of that run.
C21_CountersOfThisRun ==
    Returned =>
        \A k \in 1..Len(plugins) :
            (IsOptimizer(k) /\ InitializedInRun(k)) =>
                /\ plugins[k].path_count = ToUsize(PathsGivenTo(k))
                /\ PathsGivenTo(k) = 0 => plugins[k].total_chars_saved = UsizeZero
                /\ (Len(plugins) = 1 /\ Len(written) = Len(pulled)) =>
                       plugins[k].total_chars_saved = SavedInRun(Len(pulled))

C21_Witness ==
    /\ Returned
    /\ run = 2
    /\ result = Ok
    /\ Len(plugins) = 1
    /\ IsOptimizer(1)
    /\ Len(pulled) = 2
    /\ plugins[1].path_count = ToUsize(1)
    /\ plugins[1].total_chars_saved # UsizeZero

\* C21, as stated: when a run returns, the counters of every path optimizer
\* registered on the processor are those of the elements of that run.
C21_EveryRunFromZero ==
    [][(pc # "idle" /\ pc' = "idle") =>
           \A k \in 1..Len(plugins) :
               plugins'[k].kind = "PathOptimizer" =>
                   plugins'[k].path_count = ToUsize(PathsGivenTo(k)')]_vars

(***************************************************************************)
(* The value of an emitted number, checked under SpecPath.                 *)
(***************************************************************************)
\* The text `rounded` of a number with P fractional digits, less the zeros
\* at the end of its fractional part and less a point left at its end.
WithoutFractionZeros(rounded) ==
    IF Count(rounded, ".") = 0 THEN rounded ELSE Trimmed(rounded)

\* C22: for every collected number that parses, at every precision P >= 0,
\* the text emitted is the number rounded to P fractional digits, less only
\* zeros at the end of its fractional part: the digits of its integer part
\* are all there, and the text is never empty.
C22_EmitsRoundedValue ==
    Scanned =>
        \A k \in 1..Len(collected) :
            collected[k].parsed =>
                /\ collected[k].emitted # <<>>
                /\ collected[k].emitted =
                       WithoutFractionZeros(
                           FormatFixed(ParseFloat(collected[k].raw),
                                       optimizer.decimal_places))

\* C23: a run that returns the error of a plugin's init, or of opening the
\* input, has not created the output, has read no event and written none;
\* the output is created only once init was called on every plugin and
\* returned Ok and the input was opened, and not before.
C23_OutputAfterInitAndOpen ==
    /\ result.kind \in {"InitError", "OpenError"} =>
           /\ pc = "idle"
           /\ ~out_created
           /\ pulled = <<>>
           /\ written = <<>>
           /\ source = "open"
           /\ ~flush_attempted
    /\ result.kind = "InitError" =>
           /\ Len(init_calls) = result.unit
           /\ ~Last(init_calls).ok
    /\ result.kind = "OpenError" => AllOk(init_calls)
    /\ pc \in {"init", "create"} => ~out_created /\ pulled = <<>>
    /\ out_created =>
           /\ AllOk(init_calls)
           /\ pc # "idle" => Len(init_calls) = Len(plugins)

\* The input could not be opened after both plugins were initialized, in a
\* second run.
C23_Witness ==
    /\ result = Err("OpenError")
    /\ Len(init_calls) = 2
    /\ ~out_created
    /\ run = 2

=============================================================================
